---- MODULE Spec2Model ----
(***************************************************************************)
(* A model of the finagent workflow (src/finagent): the shared State with  *)
(* its per-field merge rules, the three Section Pipelines (Generator ->    *)
(* Checker -> Router), the Join barrier, and the parent graph ReadPDF ->   *)
(* Planner -> Sections -> TotalChecker -> Aggregator.                      *)
(*                                                                         *)
(* Python dicts are functions whose domain is the set of keys present, so  *)
(* d.get(k, default) and d.update(patch) are modelled as the code computes *)
(* them.  A text returned by the LLM is a natural number (0 is the empty   *)
(* string) where the code only stores it, and a record describing what     *)
(* json.loads makes of it where the code parses it.                        *)
(***************************************************************************)
EXTENDS Integers, Sequences, FiniteSets, TLC

----------------------------------------------------------------------------
(* Bounds of the model *)

\* LLM texts stored as drafts and reports are 0..MaxText (0 is "").
MaxText == 1
\* A checker verdict carries at most MaxFb feedback items.
MaxFb == 1
\* The Planner proposes at most MaxPlanLen task identifiers.
MaxPlanLen == 1

----------------------------------------------------------------------------
(* Program constants *)

MAX_RETRIES == 2

StatementTypes == {"balance_sheet", "income_statement", "cash_flows"}

\* the mutant of AllTasks: the default leaves out the cash-flow section
TwoTasks == <<"balance_sheet", "income_statement">>

\* planner_agent, line 129: the tasks assumed when no proposal is accepted
AllTasks == <<"balance_sheet", "income_statement", "cash_flows">>

\* STATEMENT_CONFIG[T]["state_key"] and CHECKER_CONFIG[T]["state_key"]
state_key(T) ==
    CASE T = "balance_sheet" -> "bs"
      [] T = "income_statement" -> "inc"
      [] T = "cash_flows" -> "cf"

\* STATEMENT_CONFIG[T]["log_name"]
worker_log_name(T) ==
    CASE T = "balance_sheet" -> "BS_Worker"
      [] T = "income_statement" -> "IS_Worker"
      [] T = "cash_flows" -> "CF_Worker"

\* CHECKER_CONFIG[T]["log_name"]
checker_log_name(T) ==
    CASE T = "balance_sheet" -> "BS_Checker"
      [] T = "income_statement" -> "IS_Checker"
      [] T = "cash_flows" -> "CF_Checker"

SectionKeys == {"bs", "inc", "cf"}

----------------------------------------------------------------------------
(* Python dicts and lists *)

EmptyDict == [k \in {} |-> 0]

\* d.get(k, default)
Get(d, k, default) == IF k \in DOMAIN d THEN d[k] ELSE default

\* d.update(patch), as a value
Update(d, patch) ==
    [k \in (DOMAIN d) \cup (DOMAIN patch) |->
        IF k \in DOMAIN patch THEN patch[k] ELSE d[k]]

Range(s) == {s[i] : i \in 1..Len(s)}

\* bool(x) of a text: the empty string is falsy
TruthyText(t) == t # 0

\* bool(x) of a list
TruthyList(l) == Len(l) > 0

\* bool(x) of a dict
TruthyDict(d) == DOMAIN d # {}

----------------------------------------------------------------------------
(* state.py: the merge rules of the State fields *)

\* the mutant of dict_union: the later write replaces the whole dict
dict_union_replace(a, b) == b

\* operator.or_ on two dicts: the right operand wins on a shared key
dict_union(a, b) == Update(a, b)

RECURSIVE Dedup(_, _)
\* the loop of list_union: keeps the first occurrence of every element
Dedup(s, seen) ==
    IF s = <<>> THEN <<>>
    ELSE IF Head(s) \in seen THEN Dedup(Tail(s), seen)
         ELSE <<Head(s)>> \o Dedup(Tail(s), seen \cup {Head(s)})

\* the mutant of list_union: the two lists are concatenated as they are
list_union_concat(a, b) == a \o b

\* list_union on two lists (`a or []` of a list is that list, or [] again)
list_union(a, b) == Dedup(a \o b, {})

\* An argument that may be None: [none |-> TRUE] is None, and
\* [none |-> FALSE, val |-> v] is the value v.
None == [none |-> TRUE]
Some(v) == [none |-> FALSE, val |-> v]

\* `a = a or []` in list_union: None (and the empty list) become []
OrList(o) == IF o.none THEN <<>> ELSE o.val

\* `a = a or {}` in section_merge: None (and the empty dict) become {}
OrDict(o) == IF o.none THEN EmptyDict ELSE o.val

\* the mutant of section_merge: the later write always wins
section_merge_last(a, b) == b

\* the mutant of section_merge: the record kept gets a new version
section_merge_bump(a, b) ==
    LET a1 == IF TruthyDict(a) THEN a ELSE EmptyDict
        b1 == IF TruthyDict(b) THEN b ELSE EmptyDict
        va == Get(a1, "_v", -1)
        vb == Get(b1, "_v", -1)
        w == IF va >= vb THEN a1 ELSE b1
    IN  Update(w, [k \in {"_v"} |-> Get(w, "_v", -1) + 1])

\* the mutant of section_merge: the fields of the two records are combined
section_merge_combine(a, b) ==
    LET a1 == IF TruthyDict(a) THEN a ELSE EmptyDict
        b1 == IF TruthyDict(b) THEN b ELSE EmptyDict
    IN  IF Get(a1, "_v", -1) >= Get(b1, "_v", -1)
        THEN Update(a1, b1) ELSE Update(b1, a1)

section_merge(a, b) ==
    LET a1 == IF TruthyDict(a) THEN a ELSE EmptyDict
        b1 == IF TruthyDict(b) THEN b ELSE EmptyDict
        va == Get(a1, "_v", -1)
        vb == Get(b1, "_v", -1)
    IN  IF va >= vb THEN a1 ELSE b1

\* merge(state, patch): deepcopy, then dict.update
merge(s, patch) == Update(s, patch)

\* class State: the reducer declared for one field; a field without one
\* (global_suggestions, final_report) takes the written value.
Reduce(k, cur, new) ==
    CASE k = "ctx" -> dict_union(cur, new)
      [] k = "tasks" -> list_union(cur, new)
      [] k \in SectionKeys -> section_merge(cur, new)
      [] OTHER -> new

\* The value a State dict holds after the dict `out` returned by a node is
\* written to it field by field through the declared reducers.
ApplyWrites(cur, out) ==
    [k \in (DOMAIN cur) \cup (DOMAIN out) |->
        IF k \notin DOMAIN out THEN cur[k]
        ELSE IF k \notin DOMAIN cur THEN out[k]
        ELSE Reduce(k, cur[k], out[k])]

\* The fields with a reducer start from the empty value of their type.
EmptyState ==
    [k \in {"ctx", "tasks", "bs", "inc", "cf"} |->
        IF k = "tasks" THEN <<>> ELSE EmptyDict]

----------------------------------------------------------------------------
(* JSON values, as far as the code distinguishes them *)

\* a JSON list of `items`
JList(items) == [j |-> "list", items |-> items]
\* a JSON value that is neither a list nor an object (a number, a string,
\* true, null): only its truth value is observed, and it cannot be iterated
\* when it is a number or a boolean
JScalar(b) == [j |-> "scalar", truthy |-> b]
\* a JSON object
JDict(d) == [j |-> "dict", d |-> d]

\* bool(x) of a parsed JSON value
Truthy(x) ==
    CASE x.j = "list" -> TruthyList(x.items)
      [] x.j = "dict" -> TruthyDict(x.d)
      [] OTHER -> x.truthy

\* An LLM text that json.loads rejects, and one it parses to `val`.
NotJson == [ok |-> FALSE, val |-> JScalar(FALSE)]
Json(val) == [ok |-> TRUE, val |-> val]

Seqs(S, n) == UNION {[1..m -> S] : m \in 0..n}

\* every dict over the keys K whose value at k is drawn from V[k]
Dicts(K, V) == UNION {[D -> UNION {V[k] : k \in K}] : D \in SUBSET K}

FeedbackValues == {JList(l) : l \in Seqs({1}, MaxFb)} \cup {JScalar(TRUE)}

\* The texts a Checker's LLM call may return.
CheckerVerdicts ==
    {d \in Dicts({"passed", "feedback"},
                 [passed |-> {JScalar(TRUE), JScalar(FALSE)},
                  feedback |-> FeedbackValues]) :
        /\ "passed" \in DOMAIN d => d["passed"].j = "scalar"
        /\ "feedback" \in DOMAIN d => d["feedback"] \in FeedbackValues}

CheckerTexts ==
    {NotJson, Json(JList(<<>>))} \cup {Json(JDict(d)) : d \in CheckerVerdicts}

\* The texts the Planner's LLM call may return.
PlannerTexts ==
    {NotJson, Json(JList(<<>>)), Json(JDict(EmptyDict)),
     Json(JDict([k \in {"tasks"} |-> JScalar(TRUE)]))}
    \cup {Json(JDict([k \in {"tasks"} |-> JList(l)])) :
            l \in Seqs(StatementTypes \cup {"other"}, MaxPlanLen)}

\* The texts the Global Checker's LLM call may return.
TotalCheckerTexts ==
    {NotJson, Json(JList(<<>>)), Json(JDict(EmptyDict))}
    \cup {Json(JDict([k \in {"suggestions"} |-> JList(l)])) :
            l \in Seqs({1}, 1)}

Texts == 0..MaxText

\* The texts that decide the control flow of a pipeline: a check that
\* passes (by the fail-open default), one that fails with feedback, and
\* one whose JSON is not an object.
CoreCheckerTexts ==
    {NotJson, Json(JList(<<>>)),
     Json(JDict([k \in {"passed", "feedback"} |->
                   IF k = "passed" THEN JScalar(FALSE) ELSE JList(<<1>>)]))}

----------------------------------------------------------------------------
VARIABLES
    pc,            \* the node of the parent graph that runs next
    state,         \* the State of the parent graph
    secState,      \* the State of the Sections subgraph
    sub,           \* sub[T]: the State of the Section Pipeline of T
    subpc,         \* subpc[T]: the node of that pipeline that runs next
    merged,        \* the pipelines whose result the fan-in has written
    COST_LOG,      \* costing.COST_LOG, as the number of entries per (node, role)
    rag,           \* nodes._pdf_rag_manager is set and is_initialized
    maxRetries,    \* the value of state.MAX_RETRIES in this run
    routes,        \* routes[T]: what Router(T) returned, in order
    verdicts,      \* verdicts[T]: whether each Checker(T) verdict was a pass
    joinRoute,     \* what join_route returned last ("none" before)
    joinWaited,    \* join_route has returned "wait"
    focus,         \* the component whose LLM calls range over every text
    replies,       \* replies[n]: the texts the LLM returned to node n, in order
    USE_OPENAI,    \* llm._USE_OPENAI: the SDK client was created at import
    probe,         \* the arguments of a function under test
    result         \* its value

vars == <<pc, state, secState, sub, subpc, merged, COST_LOG, rag, maxRetries,
          routes, verdicts, joinRoute, joinWaited, focus, replies, USE_OPENAI,
          probe, result>>

----------------------------------------------------------------------------
(* costing.py *)

\* log_cost(node, role, ...): one more entry of that node and role
log_cost(log, node, role) ==
    LET e == <<node, role>>
    IN  IF e \in DOMAIN log
        THEN [log EXCEPT ![e] = @ + 1]
        ELSE [x \in (DOMAIN log) \cup {e} |-> IF x = e THEN 1 ELSE log[x]]

\* len(COST_LOG)
LogLen(log) ==
    LET RECURSIVE Sum(_)
        Sum(D) == IF D = {} THEN 0
                  ELSE LET x == CHOOSE x \in D : TRUE
                       IN  log[x] + Sum(D \ {x})
    IN  Sum(DOMAIN log)

\* the number of entries logged under `node`
Calls(log, node) ==
    LET RECURSIVE Sum(_)
        Sum(D) == IF D = {} THEN 0
                  ELSE LET x == CHOOSE x \in D : TRUE
                       IN  (IF x[1] = node THEN log[x] ELSE 0) + Sum(D \ {x})
    IN  Sum(DOMAIN log)

----------------------------------------------------------------------------
(* nodes.py: the nodes as functions of the state they are given.  A node   *)
(* that can raise returns [raised, out].                                    *)

DummyText == 1
PathGiven == 1
PathResolved == 2

\* Values of ctx.pdf_text other than a text 1, 2, ...: the empty string is
\* 0, BlankText is a string of whitespace only, and NotAString is a value
\* that is not a string (None, a number).
NoText == 0
BlankText == -1
NotAString == -2

\* the mutant of NonBlankString: any string is kept, also a blank one
AnyString(t) == t # NotAString

\* isinstance(existing_text, str) and existing_text.strip()
NonBlankString(t) == t > 0

\* _initialize_pdf_rag: writes pdf_rag_enabled (and the statistics on success)
initialize_pdf_rag(ctx, ragOk) ==
    IF ragOk
    THEN Update(ctx, [k \in {"pdf_rag_enabled", "pdf_rag_stats"} |->
                        IF k = "pdf_rag_enabled" THEN TRUE ELSE 1])
    ELSE Update(ctx, [k \in {"pdf_rag_enabled"} |-> FALSE])

\* readpdf_agent, where `found` says that a candidate PDF yields text and
\* `ragOk` that PDFRAGManager.initialize_from_pdf succeeds on it.
readpdf_agent(s, found, ragOk) ==
    LET ctx == Get(s, "ctx", EmptyDict)
        existing == Get(ctx, "pdf_text", NotAString)
    IN  IF NonBlankString(existing)
        THEN IF "pdf_path" \in DOMAIN ctx
             THEN merge(s, [k \in {"ctx"} |-> initialize_pdf_rag(ctx, ragOk)])
             ELSE merge(s, [k \in {"ctx"} |-> ctx])
        ELSE IF found
             THEN LET c1 == Update(ctx, [k \in {"pdf_path", "pdf_text"} |->
                                IF k = "pdf_path" THEN PathResolved ELSE DummyText + 1])
                  IN  merge(s, [k \in {"ctx"} |-> initialize_pdf_rag(c1, ragOk)])
             ELSE merge(s, [k \in {"ctx"} |->
                                Update(ctx, [k2 \in {"pdf_text"} |-> DummyText])])

\* whether that call leaves the retrieval manager initialised
readpdf_rag(s, found, ragOk) ==
    LET ctx == Get(s, "ctx", EmptyDict)
    IN  /\ ragOk
        /\ IF NonBlankString(Get(ctx, "pdf_text", NotAString))
           THEN "pdf_path" \in DOMAIN ctx
           ELSE found

RECURSIVE FilterTasks(_)
\* [t for t in j["tasks"] if t in {"balance_sheet", ...}]
FilterTasks(l) ==
    IF l = <<>> THEN <<>>
    ELSE IF Head(l) \in StatementTypes
         THEN <<Head(l)>> \o FilterTasks(Tail(l))
         ELSE FilterTasks(Tail(l))

planner_agent(s, text) ==
    LET j == text.val
        tasks ==
            IF /\ text.ok
               /\ j.j = "dict"
               /\ "tasks" \in DOMAIN j.d
               /\ j.d["tasks"].j = "list"
               /\ TruthyList(j.d["tasks"].items)
            THEN FilterTasks(j.d["tasks"].items)
            ELSE AllTasks
    IN  merge(s, [k \in {"tasks"} |-> tasks])

\* the one suggestion total_checker substitutes when parsing fails
DefaultSuggestions == JList(<<0>>)

total_checker(s, text) ==
    LET j == text.val
        suggestions ==
            IF text.ok /\ j.j = "dict"
            THEN Get(j.d, "suggestions", JList(<<>>))
            ELSE DefaultSuggestions
    IN  merge(s, [k \in {"global_suggestions"} |->
                    [items |-> suggestions, raw |-> text]])

aggregator(s, text) == merge(s, [k \in {"final_report"} |-> text])

\* the mutant of NextVersion: the write keeps the version it found
NextVersionKept(section_data) == Get(section_data, "_v", 0)

\* section_data.get("_v", 0) + 1, the version every write of _generator
\* and _checker gives the record
NextVersion(section_data) == Get(section_data, "_v", 0) + 1

\* `for item in feedback` raises on a value that is not iterable
Iterable(x) == x.j \in {"list", "dict"}

\* the test of _generator: retrieval is enabled and initialised
UseCitations(s) ==
    /\ Get(Get(s, "ctx", EmptyDict), "pdf_rag_enabled", FALSE)
    /\ rag

\* the fields both generators write to the section record: the draft, the
\* next version, the retry count as read, and the feedback cleared
GeneratorPatch(section_data, text) ==
    [k \in {"draft", "_v", "retries", "feedback"} |->
        CASE k = "draft" -> text
          [] k = "_v" -> NextVersion(section_data)
          [] k = "retries" -> Get(section_data, "retries", 0)
          [] k = "feedback" -> JList(<<>>)]

\* the else branch of _generator: the prompt of a revision iterates over
\* the feedback, which raises when the feedback cannot be iterated
fallback_generator(T, s, text) ==
    LET key == state_key(T)
        section_data == Get(s, key, EmptyDict)
        feedback == Get(section_data, "feedback", JList(<<>>))
        existing_draft == Get(section_data, "draft", 0)
        revision == Truthy(feedback) /\ TruthyText(existing_draft)
    IN  [raised |-> revision /\ ~Iterable(feedback),
         role |-> "worker",
         out |-> merge(s, [k \in {key} |->
                    Update(section_data, GeneratorPatch(section_data, text))])]

\* _citation_enhanced_generator: _retrieve_relevant_chunks iterates over a
\* truthy feedback before the prompt is built, and the chunks retrieved
\* (a function of the feedback) are stored with the draft
citation_enhanced_generator(T, s, text) ==
    LET key == state_key(T)
        section_data == Get(s, key, EmptyDict)
        feedback == Get(section_data, "feedback", JList(<<>>))
        patch == Update(GeneratorPatch(section_data, text),
                        [k \in {"retrieved_chunks"} |-> feedback])
    IN  [raised |-> Truthy(feedback) /\ ~Iterable(feedback),
         role |-> "citation_enhanced_worker",
         out |-> merge(s, [k \in {key} |-> Update(section_data, patch)])]

\* _generator: the citation-enhanced generator when retrieval is enabled
\* and initialised, the fallback otherwise
generator(T, s, text) ==
    IF UseCitations(s)
    THEN citation_enhanced_generator(T, s, text)
    ELSE fallback_generator(T, s, text)

\* the mutant of ForcePass: the retry limit is tested one check too late
ForcePassLate(r) == r + 1 > maxRetries

\* _checker, line 329: the retry budget is used up by this failure
ForcePass(r) == r + 1 >= maxRetries

\* the mutant of Retries: a failed check is not counted
RetriesKept(r) == r

\* the mutant of Retries: a forced pass adds the limit instead of one
RetriesOver(r) == IF r + 1 >= maxRetries THEN r + maxRetries ELSE r + 1

\* _checker, lines 330 and 332: the retry count a failed check writes
Retries(r) == r + 1

\* the verdict _checker works with: the parsed text, or the default when
\* json.loads raises
Verdict(text) ==
    IF text.ok THEN text.val
    ELSE JDict([k \in {"passed", "feedback"} |->
                  IF k = "passed" THEN JScalar(TRUE) ELSE JList(<<>>)])

\* the mutant of VerdictPassed: the test has lost its `not`
VerdictInverted(fb) == ~Truthy(Get(fb.d, "passed", JScalar(FALSE)))

\* fb.get("passed", False) is truthy
VerdictPassed(fb) == Truthy(Get(fb.d, "passed", JScalar(FALSE)))

checker(T, s, text) ==
    LET key == state_key(T)
        fb == Verdict(text)
        section_data == Get(s, key, EmptyDict)
        r == Get(section_data, "retries", 0)
        v == NextVersion(section_data)
        fbk == Get(fb.d, "feedback", JList(<<>>))
        patch ==
            IF ~VerdictPassed(fb)
            THEN [k \in {"passed", "feedback", "retries", "_v"} |->
                    CASE k = "passed" -> ForcePass(r)
                      [] k = "feedback" -> fbk
                      [] k = "retries" -> Retries(r)
                      [] k = "_v" -> v]
            ELSE [k \in {"passed", "feedback", "_v"} |->
                    CASE k = "passed" -> TRUE
                      [] k = "feedback" -> fbk
                      [] k = "_v" -> v]
    IN  IF fb.j # "dict"
        THEN [raised |-> TRUE, out |-> s]
        ELSE [raised |-> FALSE,
              out |-> merge(s, [k \in {key} |-> Update(section_data, patch)])]

\* the mutant of router: the retry limit is tested one retry too early
router_early(T, s) ==
    LET section_data == Get(s, state_key(T), EmptyDict)
    IN  IF Get(section_data, "passed", FALSE) THEN "done"
        ELSE IF Get(section_data, "retries", 0) + 1 >= maxRetries THEN "done"
        ELSE "retry"

router(T, s) ==
    LET section_data == Get(s, state_key(T), EmptyDict)
    IN  IF Get(section_data, "passed", FALSE) THEN "done"
        ELSE IF Get(section_data, "retries", 0) >= maxRetries THEN "done"
        ELSE "retry"

join_barrier(s) == s

\* the mutant of join_route: the cash-flow section is not looked at
join_route_two(s) ==
    IF /\ Get(Get(s, "bs", EmptyDict), "passed", FALSE)
       /\ Get(Get(s, "inc", EmptyDict), "passed", FALSE)
    THEN "go" ELSE "wait"

join_route(s) ==
    LET bs_passed == Get(Get(s, "bs", EmptyDict), "passed", FALSE)
        inc_passed == Get(Get(s, "inc", EmptyDict), "passed", FALSE)
        cf_passed == Get(Get(s, "cf", EmptyDict), "passed", FALSE)
    IN  IF bs_passed /\ inc_passed /\ cf_passed THEN "go" ELSE "wait"

----------------------------------------------------------------------------
(* main.py and graph.py: one run of the compiled parent graph *)

FoundFor == IF focus = "parent" THEN BOOLEAN ELSE {TRUE}

\* call_llm, line 35: the text every call returns when the SDK client was
\* not created; it is not empty, and json.loads rejects it
StubText == 1
StubParsed == NotJson

PlannerTextsFor ==
    IF ~USE_OPENAI THEN {StubParsed}
    ELSE IF focus = "parent" THEN PlannerTexts ELSE {NotJson}

TotalCheckerTextsFor ==
    IF ~USE_OPENAI THEN {StubParsed}
    ELSE IF focus = "parent" THEN TotalCheckerTexts ELSE {NotJson}

AggregatorTextsFor ==
    IF ~USE_OPENAI THEN {StubText}
    ELSE IF focus = "parent" THEN Texts ELSE {MaxText}

\* main(): the initial state is {} or {"ctx": {"pdf_path": args.pdf}}
InitialStates ==
    {EmptyDict,
     [k \in {"ctx"} |-> [k2 \in {"pdf_path"} |-> PathGiven]]}

NoLog == [x \in {} |-> 0]

\* the nodes whose LLM reply is parsed as JSON to decide what the run does
ParsingNodes == {"Planner"} \cup {checker_log_name(T) : T \in StatementTypes}

NoReplies == [n \in ParsingNodes |-> <<>>]

Init ==
    /\ pc = "ReadPDF"
    /\ state \in {ApplyWrites(EmptyState, s) : s \in InitialStates}
    /\ secState = EmptyState
    /\ sub = [T \in StatementTypes |-> EmptyState]
    /\ subpc = [T \in StatementTypes |-> "idle"]
    /\ merged = {}
    /\ COST_LOG = NoLog
    /\ rag = FALSE
    /\ maxRetries = MAX_RETRIES
    /\ routes = [T \in StatementTypes |-> <<>>]
    /\ verdicts = [T \in StatementTypes |-> <<>>]
    /\ joinRoute = "none"
    /\ joinWaited = FALSE
    /\ focus \in StatementTypes \cup {"parent"}
    /\ replies = NoReplies
    /\ USE_OPENAI = TRUE
    /\ probe = <<>>
    /\ result = <<>>

\* the node ReadPDF of build_parent_graph, when reading a candidate PDF
\* and initialising the retrieval manager go as `found` and `ragOk` say
ReadPDFOn(found, ragOk) ==
    /\ pc = "ReadPDF"
    /\ state' = ApplyWrites(state, readpdf_agent(state, found, ragOk))
    /\ rag' = readpdf_rag(state, found, ragOk)
    /\ pc' = "Planner"
    /\ UNCHANGED <<secState, sub, subpc, merged, COST_LOG, maxRetries, routes,
                   verdicts, joinRoute, joinWaited, focus, USE_OPENAI, replies,
                   probe, result>>

ReadPDF == \E found \in FoundFor, ragOk \in BOOLEAN : ReadPDFOn(found, ragOk)

\* the node Planner
Planner ==
    /\ pc = "Planner"
    /\ \E text \in PlannerTextsFor :
        /\ state' = ApplyWrites(state, planner_agent(state, text))
        /\ replies' = [replies EXCEPT !["Planner"] = Append(@, text)]
    /\ COST_LOG' = log_cost(COST_LOG, "Planner", "planner")
    /\ pc' = "FanOut"
    /\ UNCHANGED <<secState, sub, subpc, merged, rag, maxRetries, routes,
                   verdicts, joinRoute, joinWaited, focus, USE_OPENAI, probe,
                   result>>

\* The node Sections starts: the Sections subgraph takes the parent's state
\* as its input, and its three START edges give that state to the three
\* statement processors, each a subgraph with a State of its own.
FanOut ==
    /\ pc = "FanOut"
    /\ secState' = ApplyWrites(EmptyState, state)
    /\ sub' = [T \in StatementTypes |-> ApplyWrites(EmptyState, secState')]
    /\ subpc' = [T \in StatementTypes |-> "Generator"]
    /\ pc' = "Sections"
    /\ UNCHANGED <<state, merged, COST_LOG, rag, maxRetries, routes, verdicts,
                   joinRoute, joinWaited, focus, USE_OPENAI, replies,
                   probe, result>>

\* The product of the components is kept small: the LLM calls of one
\* component, chosen by Init, may return every text, and the calls of the
\* others the texts that decide their control flow.  The component is one
\* of the three pipelines or "parent": the nodes of the parent graph.
GeneratorTextsFor(T) ==
    IF ~USE_OPENAI THEN {StubText}
    ELSE IF T = focus THEN Texts ELSE {MaxText}

CheckerTextsFor(T) ==
    IF ~USE_OPENAI THEN {StubParsed}
    ELSE IF T = focus THEN CheckerTexts ELSE CoreCheckerTexts

\* the mutant of AfterRouter: "retry" leads back to the Checker
AfterRouterRecheck(route) == IF route = "retry" THEN "Checker" ELSE "done"

\* build_statement_processor_subgraph, line 43: where the conditional edge
\* of the Checker leads for each label of the router ("done" is END)
AfterRouter(route) == IF route = "retry" THEN "Generator" ELSE "done"

\* the node Generator of the statement processor of T
Generator(T) ==
    /\ pc = "Sections"
    /\ subpc[T] = "Generator"
    /\ \E text \in GeneratorTextsFor(T) :
        LET g == generator(T, sub[T], text)
        IN  IF g.raised
            THEN /\ pc' = "aborted"
                 /\ UNCHANGED <<sub, subpc, COST_LOG>>
            ELSE /\ sub' = [sub EXCEPT ![T] = ApplyWrites(@, g.out)]
                 /\ COST_LOG' = log_cost(COST_LOG, worker_log_name(T), g.role)
                 /\ subpc' = [subpc EXCEPT ![T] = "Checker"]
                 /\ pc' = pc
    /\ UNCHANGED <<state, secState, merged, rag, maxRetries, routes, verdicts,
                   joinRoute, joinWaited, focus, USE_OPENAI, replies,
                   probe, result>>

\* the node Checker of the statement processor of T, with the conditional
\* edge that follows it (Router(T) reads the state the Checker has written)
Checker(T) ==
    /\ pc = "Sections"
    /\ subpc[T] = "Checker"
    /\ \E text \in CheckerTextsFor(T) :
        LET c == checker(T, sub[T], text)
            new == ApplyWrites(sub[T], c.out)
            route == router(T, new)
        IN  /\ replies' = [replies EXCEPT ![checker_log_name(T)] = Append(@, text)]
            /\ IF c.raised
               THEN /\ pc' = "aborted"
                    /\ UNCHANGED <<sub, subpc, routes, verdicts>>
               ELSE /\ sub' = [sub EXCEPT ![T] = new]
                    /\ routes' = [routes EXCEPT ![T] = Append(@, route)]
                    /\ verdicts' = [verdicts EXCEPT
                                      ![T] = Append(@, VerdictPassed(Verdict(text)))]
                    /\ subpc' = [subpc EXCEPT ![T] = AfterRouter(route)]
                    /\ pc' = pc
    /\ COST_LOG' = log_cost(COST_LOG, checker_log_name(T), "local_checker")
    /\ UNCHANGED <<state, secState, merged, rag, maxRetries, joinRoute,
                   joinWaited, focus, USE_OPENAI, probe, result>>

\* The three processors have ended: the state each returns is written to the
\* State of the Sections subgraph, in any order.
FanIn(T) ==
    /\ pc = "Sections"
    /\ \A U \in StatementTypes : subpc[U] = "done"
    /\ T \notin merged
    /\ secState' = ApplyWrites(secState, sub[T])
    /\ merged' = merged \cup {T}
    /\ pc' = IF merged' = StatementTypes THEN "Join" ELSE pc
    /\ UNCHANGED <<state, sub, subpc, COST_LOG, rag, maxRetries, routes,
                   verdicts, joinRoute, joinWaited, focus, USE_OPENAI, replies,
                   probe, result>>

\* The node Join with its conditional edge: "wait" runs Join again, "go"
\* ends the Sections subgraph, whose state is written to the parent's.
Join ==
    /\ pc = "Join"
    /\ LET s == ApplyWrites(secState, join_barrier(secState))
           r == join_route(s)
       IN  /\ secState' = s
           /\ joinRoute' = r
           /\ joinWaited' = (joinWaited \/ r = "wait")
           /\ IF r = "go"
              THEN /\ state' = ApplyWrites(state, s)
                   /\ pc' = "TotalChecker"
              ELSE /\ state' = state
                   /\ pc' = "Join"
    /\ UNCHANGED <<sub, subpc, merged, COST_LOG, rag, maxRetries, routes,
                   verdicts, focus, USE_OPENAI, replies,
                   probe, result>>

\* the node TotalChecker
TotalChecker ==
    /\ pc = "TotalChecker"
    /\ \E text \in TotalCheckerTextsFor :
        state' = ApplyWrites(state, total_checker(state, text))
    /\ COST_LOG' = log_cost(COST_LOG, "TotalChecker", "global_checker")
    /\ pc' = "Aggregator"
    /\ UNCHANGED <<secState, sub, subpc, merged, rag, maxRetries, routes,
                   verdicts, joinRoute, joinWaited, focus, USE_OPENAI, replies,
                   probe, result>>

\* the node Aggregator, which ends the run
Aggregator ==
    /\ pc = "Aggregator"
    /\ \E text \in AggregatorTextsFor :
        state' = ApplyWrites(state, aggregator(state, text))
    /\ COST_LOG' = log_cost(COST_LOG, "Aggregator", "synthesizer")
    /\ pc' = "END"
    /\ UNCHANGED <<secState, sub, subpc, merged, rag, maxRetries, routes,
                   verdicts, joinRoute, joinWaited, focus, USE_OPENAI, replies,
                   probe, result>>

Next ==
    \/ ReadPDF
    \/ Planner
    \/ FanOut
    \/ \E T \in StatementTypes : Generator(T)
    \/ \E T \in StatementTypes : Checker(T)
    \/ \E T \in StatementTypes : FanIn(T)
    \/ Join
    \/ TotalChecker
    \/ Aggregator

Spec == Init /\ [][Next]_vars

\* Every node that can run does run: the executor schedules each runnable
\* node and every LLM call returns.
FairSpec == Spec /\ WF_vars(Next)

\* A run in which the SDK client could not be created at import, so that
\* every call of call_llm returns the stub text.
StubInit ==
    /\ pc = "ReadPDF"
    /\ state \in {ApplyWrites(EmptyState, s) : s \in InitialStates}
    /\ secState = EmptyState
    /\ sub = [T \in StatementTypes |-> EmptyState]
    /\ subpc = [T \in StatementTypes |-> "idle"]
    /\ merged = {}
    /\ COST_LOG = NoLog
    /\ rag = FALSE
    /\ maxRetries = MAX_RETRIES
    /\ routes = [T \in StatementTypes |-> <<>>]
    /\ verdicts = [T \in StatementTypes |-> <<>>]
    /\ joinRoute = "none"
    /\ joinWaited = FALSE
    /\ focus = "parent"
    /\ replies = NoReplies
    /\ USE_OPENAI = FALSE
    /\ probe = <<>>
    /\ result = <<>>

StubSpec == StubInit /\ [][Next]_vars

----------------------------------------------------------------------------
(* The routing and merge functions on arbitrary arguments *)

\* the records a section field may hold
SectionInputs ==
    {EmptyDict,
     [k \in {"draft", "_v", "retries", "feedback"} |->
        CASE k = "draft" -> 1 [] k = "_v" -> 1 [] k = "retries" -> 0
          [] k = "feedback" -> JList(<<>>)],
     [k \in {"draft", "_v", "retries", "feedback", "passed"} |->
        CASE k = "draft" -> 1 [] k = "_v" -> 2 [] k = "retries" -> 1
          [] k = "feedback" -> JList(<<1>>) [] k = "passed" -> FALSE],
     [k \in {"draft", "_v", "retries", "feedback", "passed"} |->
        CASE k = "draft" -> 1 [] k = "_v" -> 2 [] k = "retries" -> 0
          [] k = "feedback" -> JList(<<>>) [] k = "passed" -> TRUE],
     [k \in {"draft", "_v", "retries", "feedback", "passed"} |->
        CASE k = "draft" -> 0 [] k = "_v" -> 2 [] k = "retries" -> 0
          [] k = "feedback" -> JList(<<>>) [] k = "passed" -> TRUE],
     [k \in {"draft"} |-> 1]}

\* the states join_route is evaluated on: every section field missing or
\* holding one of SectionInputs
JoinInputs ==
    UNION {[D -> SectionInputs] : D \in SUBSET SectionKeys}

\* everything but the variables a function test uses
Idle ==
    /\ state = EmptyState
    /\ sub = [T \in StatementTypes |-> EmptyState]
    /\ subpc = [T \in StatementTypes |-> "idle"]
    /\ merged = {}
    /\ COST_LOG = NoLog
    /\ rag = FALSE
    /\ maxRetries = MAX_RETRIES
    /\ routes = [T \in StatementTypes |-> <<>>]
    /\ verdicts = [T \in StatementTypes |-> <<>>]
    /\ joinRoute = "none"
    /\ joinWaited = FALSE
    /\ focus = "balance_sheet"
    /\ replies = NoReplies
    /\ USE_OPENAI = TRUE

JoinInit ==
    /\ Idle
    /\ pc = "Join"
    /\ secState \in JoinInputs
    /\ probe = <<>>
    /\ result = <<>>

\* The Join node and join_route on every state of JoinInputs.
JoinSpec == JoinInit /\ [][Join]_vars

MaxMergeLen == 2

CtxInputs == UNION {[D -> {1, 2}] : D \in SUBSET {"pdf_path", "pdf_text"}}

TaskInputs == Seqs({"balance_sheet", "cash_flows"}, MaxMergeLen)

\* a field of State with three values of it
MergeInputs ==
    ({"ctx"} \X CtxInputs \X CtxInputs \X CtxInputs)
    \cup ({"tasks"} \X TaskInputs \X TaskInputs \X TaskInputs)
    \cup (SectionKeys \X SectionInputs \X SectionInputs \X SectionInputs)

MergeInit ==
    /\ Idle
    /\ pc = "merge"
    /\ secState = EmptyState
    /\ probe \in MergeInputs
    /\ result = <<>>

\* the merges of probe = <<field, a, b, c>> in both orders and groupings
MergeEval ==
    /\ pc = "merge"
    /\ result = <<>>
    /\ LET f == probe[1]
           a == probe[2]
           b == probe[3]
           c == probe[4]
       IN  result' = [ab |-> Reduce(f, a, b),
                      ba |-> Reduce(f, b, a),
                      ab_c |-> Reduce(f, Reduce(f, a, b), c),
                      ac_b |-> Reduce(f, Reduce(f, a, c), b),
                      a_bc |-> Reduce(f, a, Reduce(f, b, c))]
    /\ UNCHANGED <<pc, state, secState, sub, subpc, merged, COST_LOG, rag,
                   maxRetries, routes, verdicts, joinRoute, joinWaited, focus,
                   USE_OPENAI, replies, probe>>

\* The declared merge rule of every field on every triple of MergeInputs.
MergeSpec == MergeInit /\ [][MergeEval]_vars

\* the lists list_union may be given, repeated elements included
ListInputs == Seqs(StatementTypes, MaxMergeLen)

\* a merge function of state.py with two arguments, each a value or None
CallInputs ==
    ({"list_union"} \X ({None} \cup {Some(l) : l \in ListInputs})
                   \X ({None} \cup {Some(l) : l \in ListInputs}))
    \cup ({"section_merge"} \X ({None} \cup {Some(r) : r \in SectionInputs})
                          \X ({None} \cup {Some(r) : r \in SectionInputs}))

CallInit ==
    /\ Idle
    /\ pc = "call"
    /\ secState = EmptyState
    /\ probe \in CallInputs
    /\ result = <<>>

\* the call probe[1](probe[2], probe[3])
CallEval ==
    /\ pc = "call"
    /\ result = <<>>
    /\ result' = [val |-> IF probe[1] = "list_union"
                          THEN list_union(OrList(probe[2]), OrList(probe[3]))
                          ELSE section_merge(OrDict(probe[2]), OrDict(probe[3]))]
    /\ UNCHANGED <<pc, state, secState, sub, subpc, merged, COST_LOG, rag,
                   maxRetries, routes, verdicts, joinRoute, joinWaited, focus, USE_OPENAI,
                   replies, probe>>

\* list_union and section_merge on every pair of CallInputs.
CallSpec == CallInit /\ [][CallEval]_vars

\* One Checker about to run on any section record.
CheckerInit ==
    /\ pc = "Sections"
    /\ focus \in StatementTypes
    /\ state = EmptyState
    /\ secState = EmptyState
    /\ sub \in {[T \in StatementTypes |->
                    IF T = focus
                    THEN [EmptyState EXCEPT ![state_key(T)] = rec]
                    ELSE EmptyState] : rec \in SectionInputs}
    /\ subpc = [T \in StatementTypes |-> IF T = focus THEN "Checker" ELSE "idle"]
    /\ merged = {}
    /\ COST_LOG = NoLog
    /\ rag = FALSE
    /\ maxRetries = MAX_RETRIES
    /\ routes = [T \in StatementTypes |-> <<>>]
    /\ verdicts = [T \in StatementTypes |-> <<>>]
    /\ joinRoute = "none"
    /\ joinWaited = FALSE
    /\ replies = NoReplies
    /\ USE_OPENAI = TRUE
    /\ probe = <<>>
    /\ result = <<>>

\* Checker(T) and Router(T) on every record of SectionInputs.
CheckerSpec == CheckerInit /\ [][\E T \in StatementTypes : Checker(T)]_vars

----------------------------------------------------------------------------
(* nodes.py: Router(T) on arbitrary section records *)

\* the retry counts a record given to Router(T) may hold: 0..MaxRetriesIn
MaxRetriesIn == 3

\* the records Router(T) is evaluated on: any of passed and retries may be
\* missing
RouterInputs ==
    {EmptyDict}
    \cup {[k \in {"passed"} |-> p] : p \in BOOLEAN}
    \cup {[k \in {"retries"} |-> n] : n \in 0..MaxRetriesIn}
    \cup {[k \in {"passed", "retries"} |-> IF k = "passed" THEN p ELSE n] :
            p \in BOOLEAN, n \in 0..MaxRetriesIn}

RouteInit ==
    /\ pc = "route"
    /\ focus \in StatementTypes
    /\ state = EmptyState
    /\ secState = EmptyState
    /\ sub \in {[T \in StatementTypes |->
                    IF T = focus
                    THEN [EmptyState EXCEPT ![state_key(T)] = rec]
                    ELSE EmptyState] : rec \in RouterInputs}
    /\ subpc = [T \in StatementTypes |-> "idle"]
    /\ merged = {}
    /\ COST_LOG = NoLog
    /\ rag = FALSE
    /\ maxRetries = MAX_RETRIES
    /\ routes = [T \in StatementTypes |-> <<>>]
    /\ verdicts = [T \in StatementTypes |-> <<>>]
    /\ joinRoute = "none"
    /\ joinWaited = FALSE
    /\ replies = NoReplies
    /\ USE_OPENAI = TRUE
    /\ probe = <<>>
    /\ result = <<>>

\* the call _router(state) of the router of T: it returns a label and
\* assigns nothing
Route(T) ==
    /\ pc = "route"
    /\ result = <<>>
    /\ result' = [of |-> T, label |-> router(T, sub[T])]
    /\ UNCHANGED <<pc, state, secState, sub, subpc, merged, COST_LOG, rag,
                   maxRetries, routes, verdicts, joinRoute, joinWaited, focus, USE_OPENAI,
                   replies, probe>>

\* Router(T) of every statement type on every record of RouterInputs.
RouteSpec == RouteInit /\ [][\E T \in StatementTypes : Route(T)]_vars

----------------------------------------------------------------------------
(* state.py and graph.py: one Section Pipeline under any retry limit *)

\* MAX_RETRIES is configured as one of 0..MaxConfigured
MaxConfigured == 3

\* the state a statement processor is started with, where `enabled` says
\* that ReadPDF has initialised retrieval
PipelineInput(enabled) ==
    ApplyWrites(EmptyState,
                [k \in {"ctx", "tasks"} |->
                    IF k = "tasks" THEN AllTasks
                    ELSE [k2 \in {"pdf_text", "pdf_rag_enabled"} |->
                            IF k2 = "pdf_text" THEN DummyText ELSE enabled]])

PipelineInit ==
    /\ pc = "Sections"
    /\ focus \in StatementTypes
    /\ maxRetries \in 0..MaxConfigured
    /\ rag \in BOOLEAN
    /\ state = PipelineInput(rag)
    /\ secState = PipelineInput(rag)
    /\ sub = [T \in StatementTypes |-> PipelineInput(rag)]
    /\ subpc = [T \in StatementTypes |-> IF T = focus THEN "Generator" ELSE "idle"]
    /\ merged = {}
    /\ COST_LOG = NoLog
    /\ routes = [T \in StatementTypes |-> <<>>]
    /\ verdicts = [T \in StatementTypes |-> <<>>]
    /\ joinRoute = "none"
    /\ joinWaited = FALSE
    /\ replies = NoReplies
    /\ USE_OPENAI = TRUE
    /\ probe = <<>>
    /\ result = <<>>

\* One statement processor, from its START edge to its END, with
\* MAX_RETRIES set to any value of 0..MaxConfigured.
PipelineSpec ==
    PipelineInit
    /\ [][\/ \E T \in StatementTypes : Generator(T)
          \/ \E T \in StatementTypes : Checker(T)]_vars

----------------------------------------------------------------------------
(* nodes.py: ReadPDF on a state built upstream *)

\* what ctx.pdf_text may hold when the graph is invoked
UpstreamTexts == {NotAString, BlankText} \cup (0..MaxText + 1)

\* a ctx.pdf_path of whitespace only: it is truthy, and no candidate path
BlankPath == -1

\* the states the graph may be invoked with: any of ctx, pdf_path and
\* pdf_text may be missing
ReadInputs ==
    {EmptyDict}
    \cup {[k \in {"ctx"} |-> c] :
            c \in {d \in Dicts({"pdf_path", "pdf_text"},
                                [pdf_path |-> {PathGiven, BlankPath},
                                 pdf_text |-> UpstreamTexts]) :
                        "pdf_path" \in DOMAIN d =>
                            d["pdf_path"] \in {PathGiven, BlankPath}}}

ReadInit ==
    /\ pc = "ReadPDF"
    /\ state \in {ApplyWrites(EmptyState, s) : s \in ReadInputs}
    /\ secState = EmptyState
    /\ sub = [T \in StatementTypes |-> EmptyState]
    /\ subpc = [T \in StatementTypes |-> "idle"]
    /\ merged = {}
    /\ COST_LOG = NoLog
    /\ rag = FALSE
    /\ maxRetries = MAX_RETRIES
    /\ routes = [T \in StatementTypes |-> <<>>]
    /\ verdicts = [T \in StatementTypes |-> <<>>]
    /\ joinRoute = "none"
    /\ joinWaited = FALSE
    /\ focus = "parent"
    /\ replies = NoReplies
    /\ USE_OPENAI = TRUE
    /\ probe = <<>>
    /\ result = <<>>

\* ReadPDF on every state of ReadInputs, and the Planner that follows it.
ReadSpec == ReadInit /\ [][ReadPDF \/ Planner]_vars

----------------------------------------------------------------------------
(* tokens.py and llm.py: the LLM gateway.  A text is known by its length. *)

\* a prompt has at most MaxPromptLen characters
MaxPromptLen == 8
\* the content of a response has at most MaxContentLen characters, not
\* counting surrounding whitespace
MaxContentLen == 4

\* len() of the stub string of call_llm
StubLen == 30

\* max(1, int(len(text) / 4))
LengthEstimate(len) == IF len \div 4 >= 1 THEN len \div 4 ELSE 1

\* count_tokens(text) for a text of `len` characters, where `encoded` is
\* the number of tokens the encoder gives, or None when there is no encoder
\* or its encode() raises
count_tokens(len, encoded) ==
    IF len = 0 THEN 0
    ELSE IF ~encoded.none THEN encoded.val
    ELSE LengthEstimate(len)

\* What a request to the service does: it raises (a transport or service
\* error), or it returns a response with no choice, or one whose first
\* choice has `content` (None, or a text of len characters with or without
\* surrounding whitespace) and whose `usage` is None or token counts.
RequestFails == [kind |-> "raises"]
NoChoices == [kind |-> "empty"]
Contents ==
    {None} \cup {Some([len |-> n, padded |-> w]) :
                    n \in 0..MaxContentLen, w \in BOOLEAN}
Usages == {None, Some([prompt_tokens |-> 3, completion_tokens |-> 2])}
Responses ==
    {RequestFails, NoChoices}
    \cup {[kind |-> "response", content |-> c, usage |-> u] :
            c \in Contents, u \in Usages}

\* (content or "").strip(), as the length of the text
Stripped(content) == IF content.none THEN 0 ELSE content.val.len

\* call_llm, where `use_openai` is _USE_OPENAI as the import left it
call_llm(use_openai, promptLen, encoded, response) ==
    LET in_tok == count_tokens(promptLen, encoded)
        raises == [raised |-> TRUE, stub |-> FALSE, len |-> 0,
                   in_tok |-> 0, out_tok |-> 0]
    IN  IF use_openai
        THEN IF response.kind = "raises" THEN raises
             ELSE IF response.kind = "empty" THEN raises
             ELSE [raised |-> FALSE, stub |-> FALSE,
                   len |-> Stripped(response.content),
                   in_tok |-> IF response.usage.none THEN in_tok
                              ELSE response.usage.val.prompt_tokens,
                   out_tok |-> IF response.usage.none
                               THEN count_tokens(Stripped(response.content), encoded)
                               ELSE response.usage.val.completion_tokens]
        ELSE [raised |-> FALSE, stub |-> TRUE, len |-> StubLen,
              in_tok |-> in_tok, out_tok |-> count_tokens(StubLen, encoded)]

\* the calls of call_llm: whether the SDK was initialised at import, the
\* prompt, the encoder's count, and what the request does
GatewayInputs ==
    [use_openai : BOOLEAN,
     promptLen : 0..MaxPromptLen,
     encoded : {None, Some(2)},
     response : Responses]

GatewayInit ==
    /\ Idle
    /\ pc = "call_llm"
    /\ secState = EmptyState
    /\ probe \in GatewayInputs
    /\ result = <<>>

\* one call of call_llm
CallLLM ==
    /\ pc = "call_llm"
    /\ result = <<>>
    /\ result' = call_llm(probe.use_openai, probe.promptLen, probe.encoded,
                          probe.response)
    /\ UNCHANGED <<pc, state, secState, sub, subpc, merged, COST_LOG, rag,
                   maxRetries, routes, verdicts, joinRoute, joinWaited, focus, USE_OPENAI,
                   replies, probe>>

\* call_llm on every call of GatewayInputs.
GatewaySpec == GatewayInit /\ [][CallLLM]_vars

----------------------------------------------------------------------------
(* config.py and costing.py: the cost ledger with its token counts.  A     *)
(* rate is in hundredths of a dollar per 1k tokens and a cost in 1e-5      *)
(* dollars, so that (tokens / 1000.0) * rate is tokens * rate exactly.     *)

\* the ledger holds at most MaxLedger entries
MaxLedger == 2

\* the token counts of a logged call
TokenCounts == {0, 50, 100, 200}

\* config.PRICING: the default rates 0.05 and 0.15, and rates set through
\* the environment
DefaultPricing == [input_per_1k |-> 5, output_per_1k |-> 15]
Pricings == {DefaultPricing, [input_per_1k |-> 100, output_per_1k |-> 0]}

\* the mutant of estimate_cost: output tokens are priced at the input rate
estimate_cost_flat(pricing, input_tokens, output_tokens) ==
    (input_tokens + output_tokens) * pricing.input_per_1k

estimate_cost(pricing, input_tokens, output_tokens) ==
    input_tokens * pricing.input_per_1k + output_tokens * pricing.output_per_1k

\* the entry log_cost appends, without its node, role and previews
LedgerEntry(pricing, in_tok, out_tok) ==
    [input_tokens |-> in_tok,
     output_tokens |-> out_tok,
     input_cost |-> in_tok * pricing.input_per_1k,
     output_cost |-> out_tok * pricing.output_per_1k,
     total_cost |-> estimate_cost(pricing, in_tok, out_tok)]

RECURSIVE SumOf(_, _)
\* sum(x[field] for x in log)
SumOf(log, field) ==
    IF log = <<>> THEN 0 ELSE Head(log)[field] + SumOf(Tail(log), field)

summarize_cost(pricing, log) ==
    LET total_in == SumOf(log, "input_tokens")
        total_out == SumOf(log, "output_tokens")
    IN  [calls |-> Len(log),
         input_tokens |-> total_in,
         output_tokens |-> total_out,
         est_cost |-> estimate_cost(pricing, total_in, total_out)]

LedgerInit ==
    /\ Idle
    /\ pc = "ledger"
    /\ secState = EmptyState
    /\ probe \in {[pricing |-> p, log |-> <<>>] : p \in Pricings}
    /\ result = <<>>

\* log_cost(node, role, in_tok, out_tok, ...)
LedgerLog ==
    /\ pc = "ledger"
    /\ result = <<>>
    /\ Len(probe.log) < MaxLedger
    /\ \E in_tok \in TokenCounts, out_tok \in TokenCounts :
        probe' = [probe EXCEPT
                    !.log = Append(@, LedgerEntry(probe.pricing, in_tok, out_tok))]
    /\ UNCHANGED <<pc, state, secState, sub, subpc, merged, COST_LOG, rag,
                   maxRetries, routes, verdicts, joinRoute, joinWaited, focus, USE_OPENAI,
                   replies, result>>

\* summarize_cost()
LedgerSummarize ==
    /\ pc = "ledger"
    /\ result = <<>>
    /\ result' = summarize_cost(probe.pricing, probe.log)
    /\ UNCHANGED <<pc, state, secState, sub, subpc, merged, COST_LOG, rag,
                   maxRetries, routes, verdicts, joinRoute, joinWaited, focus, USE_OPENAI,
                   replies, probe>>

\* Every ledger of at most MaxLedger entries, and its summary.
LedgerSpec == LedgerInit /\ [][LedgerLog \/ LedgerSummarize]_vars

----------------------------------------------------------------------------
(* Properties *)

\* section[T] as the pipeline of T holds it
Section(T) == sub[T][state_key(T)]

\* every copy of section[T]: in the pipelines, the Sections subgraph and
\* the parent graph
Copies(T) ==
    {sub[U][state_key(T)] : U \in StatementTypes}
    \cup {secState[state_key(T)], state[state_key(T)]}

retry_count(rec) == Get(rec, "retries", 0)

version(rec) == Get(rec, "_v", 0)

IsPassed(rec) == "passed" \in DOMAIN rec /\ rec["passed"] = TRUE

Last(q) == q[Len(q)]

AllFailed(q) == \A i \in 1..Len(q) : q[i] = FALSE

\* C1: in a run started with no section records and MAX_RETRIES = 2, no
\* copy of any section ever has a retry_count above MAX_RETRIES, whatever
\* the Checkers' LLM calls return.
C1_RetryCountBounded ==
    \A T \in StatementTypes : \A rec \in Copies(T) :
        retry_count(rec) <= MAX_RETRIES

\* a finished run in which a section used up its retries
C1_Witness ==
    /\ pc = "END"
    /\ \E T \in StatementTypes : retry_count(state[state_key(T)]) = MAX_RETRIES

\* C2: a section whose retry_count equals MAX_RETRIES has passed = true.
C2_ExhaustedIsPassed ==
    \A T \in StatementTypes : \A rec \in Copies(T) :
        retry_count(rec) = MAX_RETRIES => IsPassed(rec)

\* a pipeline whose two checks both failed, so the pass was forced
C2_Witness ==
    \E T \in StatementTypes :
        /\ verdicts[T] = <<FALSE, FALSE>>
        /\ retry_count(Section(T)) = MAX_RETRIES
        /\ IsPassed(Section(T))

\* C3: every run, whatever the LLM calls return, ends at the terminal
\* marker with final_report set: a run that has not done so can take a
\* step, and that step is never the WAIT self-loop of the Join.
C3_RunsToFinalReport ==
    \/ pc = "END" /\ "final_report" \in DOMAIN state
    \/ ENABLED Next /\ joinRoute # "wait"

\* C4: join_route returns "go" exactly when all three section records are
\* present with passed = true, and "wait" otherwise.
C4_JoinRouteIffAllPassed ==
    joinRoute # "none" =>
        /\ joinRoute \in {"go", "wait"}
        /\ joinRoute = "go" <=>
              \A k \in SectionKeys :
                  /\ k \in DOMAIN secState
                  /\ IsPassed(secState[k])
        /\ pc = IF joinRoute = "go" THEN "TotalChecker" ELSE "Join"

\* join_route answered "wait" with two sections passed and the third
\* record missing
C4_Witness ==
    /\ joinRoute = "wait"
    /\ "cf" \notin DOMAIN secState
    /\ "bs" \in DOMAIN secState /\ IsPassed(secState["bs"])
    /\ "inc" \in DOMAIN secState /\ IsPassed(secState["inc"])

\* C5 as claimed: when every check of balance_sheet fails, the Router's
\* results at the end of the pipeline are RETRY, RETRY, DONE.
C5_ThreeFailuresThreeRoutes ==
    (subpc["balance_sheet"] = "done" /\ AllFailed(verdicts["balance_sheet"]))
        => routes["balance_sheet"] = <<"retry", "retry", "done">>

\* C5 as amended: when every check of balance_sheet fails, the first check
\* leaves retry_count 1 with passed false and the Router answers RETRY, the
\* second leaves retry_count 2 with passed forced to true and the Router
\* answers DONE, and no third check runs.
C5_TwoFailuresEndThePipeline ==
    LET q == verdicts["balance_sheet"]
        rec == Section("balance_sheet")
    IN  (q # <<>> /\ AllFailed(q)) =>
            /\ Len(q) <= 2
            /\ Len(q) = 1 =>
                  /\ retry_count(rec) = 1
                  /\ ~IsPassed(rec)
                  /\ routes["balance_sheet"] = <<"retry">>
                  /\ subpc["balance_sheet"] # "done"
            /\ Len(q) = 2 =>
                  /\ retry_count(rec) = 2
                  /\ IsPassed(rec)
                  /\ routes["balance_sheet"] = <<"retry", "done">>
                  /\ subpc["balance_sheet"] = "done"

\* the balance_sheet pipeline has ended after two failed checks
C5_Witness ==
    /\ verdicts["balance_sheet"] = <<FALSE, FALSE>>
    /\ routes["balance_sheet"] = <<"retry", "done">>
    /\ subpc["balance_sheet"] = "done"

\* C6: whenever Router(T) has returned DONE, passed is true in the state
\* it inspected.
C6_DoneOnlyWhenPassed ==
    \A T \in StatementTypes :
        (routes[T] # <<>> /\ Last(routes[T]) = "done") => IsPassed(Section(T))

\* Router(T) returned DONE after a last check that failed
C6_Witness ==
    \E T \in StatementTypes :
        /\ routes[T] # <<>> /\ Last(routes[T]) = "done"
        /\ Last(verdicts[T]) = FALSE
        /\ retry_count(Section(T)) >= MAX_RETRIES

\* C7: at the fan-in, in whatever order the three results are written, the
\* state of the Sections subgraph holds for each pipeline already written
\* exactly its final record and for the others no record yet, with ctx and
\* tasks as they were at the fan-out; the parent's state then holds the
\* three final records.
C7_FanInKeepsEverySection ==
    /\ (pc \in {"Sections", "Join"} /\ \A U \in StatementTypes : subpc[U] = "done") =>
          /\ \A T \in StatementTypes :
                secState[state_key(T)] =
                    IF T \in merged THEN Section(T) ELSE EmptyDict
          /\ secState["ctx"] = state["ctx"]
          /\ secState["tasks"] = state["tasks"]
          /\ \A T \in StatementTypes :
                /\ sub[T]["ctx"] = state["ctx"]
                /\ sub[T]["tasks"] = state["tasks"]
    /\ pc \in {"TotalChecker", "Aggregator", "END"} =>
          /\ \A T \in StatementTypes : state[state_key(T)] = Section(T)
          /\ state["ctx"] = secState["ctx"]
          /\ state["tasks"] = secState["tasks"]

\* the fan-in has written two of three results that differ in retry_count
C7_Witness ==
    /\ pc = "Sections"
    /\ merged = {"balance_sheet", "cash_flows"}
    /\ retry_count(secState["bs"]) = 2
    /\ retry_count(secState["cf"]) = 0
    /\ IsPassed(secState["cf"])
    /\ retry_count(Section("income_statement")) = 1

\* the field a merge test is about
ProbeIsCtx == probe[1] = "ctx"
ProbeIsTasks == probe[1] = "tasks"
ProbeIsSection == probe[1] \in SectionKeys

Compatible(a, b) == \A k \in (DOMAIN a) \cap (DOMAIN b) : a[k] = b[k]

C9_MergeAssociates ==
    result # <<>> => result.ab_c = result.a_bc

\* three section records, two of them of equal version and different
\* content, have been merged in both groupings
C9_Witness ==
    /\ result # <<>>
    /\ ProbeIsSection
    /\ Get(probe[2], "_v", -1) = 2
    /\ Get(probe[3], "_v", -1) = 2
    /\ probe[2] # probe[3]
    /\ Get(probe[4], "_v", -1) = 2
    /\ result.ab_c = probe[2]

\* a step in which Generator(T) or Checker(T) has run to its end
Wrote(T) ==
    \/ subpc[T] = "Generator" /\ subpc'[T] = "Checker"
    \/ subpc[T] = "Checker" /\ subpc'[T] \in {"Generator", "done"}

\* C10: every Generator(T) and Checker(T) execution increases
\* section[T].version, every change of a copy of section[T] increases its
\* version, and no step decreases it.
C10_VersionIncreases ==
    [][\A T \in StatementTypes :
          /\ Wrote(T) => version(Section(T)') > version(Section(T))
          /\ Section(T)' # Section(T) => version(Section(T)') > version(Section(T))
          /\ secState'[state_key(T)] # secState[state_key(T)] =>
                version(secState'[state_key(T)]) > version(secState[state_key(T)])
          /\ state'[state_key(T)] # state[state_key(T)] =>
                version(state'[state_key(T)]) > version(state[state_key(T)])]_vars

\* a section written four times: generated, failed, revised, checked again
C10_Witness ==
    \E T \in StatementTypes :
        /\ version(Section(T)) = 4
        /\ Len(verdicts[T]) = 2

\* a step in which the LLM call of Checker(T) has returned
CheckerRan(T) ==
    Len(replies'[checker_log_name(T)]) = Len(replies[checker_log_name(T)]) + 1

\* what the LLM returned to the last Checker(T)
LastReply(T) == Last(replies[checker_log_name(T)])

\* a Checker reply that is not of the structure {passed, feedback}: text
\* that is not JSON, JSON that is not an object, an object without `passed`
Malformed(text) ==
    \/ ~text.ok
    \/ text.val.j # "dict"
    \/ "passed" \notin DOMAIN text.val.d

\* C11: for every Checker LLM output that is not of the structure
\* {passed, feedback}, Checker(T) completes without raising and leaves
\* passed = true and feedback = [] with retry_count unchanged.
C11_MalformedOutputPasses ==
    [][\A T \in StatementTypes :
          (CheckerRan(T) /\ Malformed(LastReply(T)')) =>
              /\ pc' # "aborted"
              /\ IsPassed(Section(T)')
              /\ Section(T)'["feedback"] = JList(<<>>)
              /\ retry_count(Section(T)') = retry_count(Section(T))]_vars

\* the proposal the Planner node was given
Proposal == replies["Planner"][1]

\* the Planner node has run to its end
Planned == replies["Planner"] # <<>> /\ pc # "Planner"

\* C12: when the Planner's LLM output is not parseable JSON, the node runs
\* to its end and tasks is [balance_sheet, income_statement, cash_flows]
\* from then on.
C12_UnparseablePlanRunsAll ==
    (Planned /\ ~Proposal.ok) =>
        /\ state["tasks"] = <<"balance_sheet", "income_statement", "cash_flows">>
        /\ pc \in {"FanOut", "Sections", "Join", "TotalChecker", "Aggregator",
                   "END", "aborted"}

\* the Planner has just run on text that is not JSON
C12_Witness ==
    /\ pc = "FanOut"
    /\ replies["Planner"] = <<NotJson>>
    /\ Len(state["tasks"]) = 3

\* a proposal that parses as JSON and is not an object with a non-empty
\* list `tasks` of known identifiers
InvalidProposal(text) ==
    /\ text.ok
    /\ \/ text.val.j # "dict"
       \/ "tasks" \notin DOMAIN text.val.d
       \/ text.val.d["tasks"].j # "list"
       \/ text.val.d["tasks"].items = <<>>
       \/ \E i \in 1..Len(text.val.d["tasks"].items) :
              text.val.d["tasks"].items[i] \notin StatementTypes

\* C13: when the Planner's LLM output parses as JSON and is an invalid
\* proposal, tasks after the Planner node is all three section identifiers.
C13_InvalidPlanRunsAll ==
    (Planned /\ InvalidProposal(Proposal)) =>
        state["tasks"] = <<"balance_sheet", "income_statement", "cash_flows">>

\* Generator(T) or Checker(T) has made its LLM call
Executed(T) ==
    \/ Calls(COST_LOG, worker_log_name(T)) > 0
    \/ Calls(COST_LOG, checker_log_name(T)) > 0

\* C14: the pipeline of T runs its Generator and Checker only if T is in
\* tasks as the Planner set it.
C14_OnlyPlannedSectionsRun ==
    \A T \in StatementTypes : Executed(T) => T \in Range(state["tasks"])

\* the verdict {passed: true, feedback: []}
PassVerdict ==
    Json(JDict([k \in {"passed", "feedback"} |->
                  IF k = "passed" THEN JScalar(TRUE) ELSE JList(<<>>)]))

\* C15: for the verdict {passed: true, feedback: []} and any section
\* record, Checker(T) does not raise, leaves retry_count unchanged and sets
\* passed = true.
C15_PassVerdictKeepsRetries ==
    [][\A T \in StatementTypes :
          (CheckerRan(T) /\ LastReply(T)' = PassVerdict) =>
              /\ pc' # "aborted"
              /\ IsPassed(Section(T)')
              /\ retry_count(Section(T)') = retry_count(Section(T))
              /\ ("retries" \in DOMAIN Section(T)') = ("retries" \in DOMAIN Section(T))
              /\ Last(routes'[T]) = "done"]_vars

\* a record left by a failed check (passed false, retry_count 1) has been
\* given the passing verdict
C15_Witness ==
    \E T \in StatementTypes :
        /\ replies[checker_log_name(T)] = <<PassVerdict>>
        /\ retry_count(Section(T)) = 1
        /\ IsPassed(Section(T))
        /\ version(Section(T)) = 3
        /\ subpc[T] = "done"

\* each of the three Checkers has accepted its section on the first check
AllAcceptedAtOnce ==
    \A T \in StatementTypes : verdicts[T] # <<>> /\ verdicts[T][1] = TRUE

\* C16: in a run where each Checker accepts its section on the first check,
\* every pipeline ends after that check, the Join never answers WAIT, and
\* its first evaluation answers GO and hands over to the Global Checker.
C16_AllAcceptedJoinGoes ==
    AllAcceptedAtOnce =>
        /\ \A T \in StatementTypes : routes[T] = <<"done">>
        /\ ~joinWaited
        /\ joinRoute \in {"none", "go"}
        /\ joinRoute = "none" <=> pc \in {"Sections", "Join"}
        /\ joinRoute = "go" <=> pc \in {"TotalChecker", "Aggregator", "END"}

\* the Join has answered GO after three first checks that accepted
C16_Witness ==
    /\ AllAcceptedAtOnce
    /\ joinRoute = "go"
    /\ pc = "TotalChecker"
    /\ ~joinWaited

\* The order of the nodes: ReadPDF before the Planner, the Planner before
\* every Generator and Checker, the Global Checker after the three
\* pipelines and the GO of the Join, the Aggregator after the Global
\* Checker, and none of Planner, Global Checker, Aggregator more than once.
NodesInOrder ==
    /\ Calls(COST_LOG, "Planner") > 0 =>
          /\ pc # "ReadPDF"
          /\ "pdf_text" \in DOMAIN state["ctx"]
    /\ \A T \in StatementTypes :
          (Executed(T) \/ subpc[T] # "idle") => Calls(COST_LOG, "Planner") = 1
    /\ Calls(COST_LOG, "TotalChecker") > 0 =>
          /\ \A T \in StatementTypes : subpc[T] = "done"
          /\ merged = StatementTypes
          /\ joinRoute = "go"
    /\ Calls(COST_LOG, "Aggregator") > 0 => Calls(COST_LOG, "TotalChecker") = 1
    /\ \A n \in {"Planner", "TotalChecker", "Aggregator"} :
          Calls(COST_LOG, n) <= 1
    /\ pc = "END" =>
          \A n \in {"Planner", "TotalChecker", "Aggregator"} :
              Calls(COST_LOG, n) = 1

\* the run is over: no node is left to run
RunOver == pc \in {"END", "aborted"}

\* C17: in every run the nodes execute in the order ReadPDF, Planner, the
\* three pipelines, Join, Global Checker, Aggregator, and each of Planner,
\* Global Checker and Aggregator runs exactly once.
C17_NodesInOrderEachOnce ==
    /\ NodesInOrder
    /\ RunOver =>
          \A n \in {"Planner", "TotalChecker", "Aggregator"} :
              Calls(COST_LOG, n) = 1

\* C18: when two branches write dicts b and c of disjoint key sets to a
\* ctx a, the merged ctx is the same whichever is merged first: its keys
\* are those of a, b and c, each key of b and c with the value its branch
\* wrote.
C18_DisjointCtxWritesUnite ==
    (result # <<>> /\ ProbeIsCtx /\ (DOMAIN probe[3]) \cap (DOMAIN probe[4]) = {}) =>
        LET a == probe[2]
            b == probe[3]
            c == probe[4]
        IN  /\ result.ab_c = result.ac_b
            /\ DOMAIN result.ab_c = (DOMAIN a) \cup (DOMAIN b) \cup (DOMAIN c)
            /\ \A k \in DOMAIN b : result.ab_c[k] = b[k]
            /\ \A k \in DOMAIN c : result.ab_c[k] = c[k]
            /\ \A k \in (DOMAIN a) \ ((DOMAIN b) \cup (DOMAIN c)) :
                  result.ab_c[k] = a[k]

\* two branches have written one key each to an empty ctx
C18_Witness ==
    /\ result # <<>>
    /\ ProbeIsCtx
    /\ probe[2] = EmptyDict
    /\ DOMAIN probe[3] = {"pdf_path"}
    /\ DOMAIN probe[4] = {"pdf_text"}
    /\ DOMAIN result.ac_b = {"pdf_path", "pdf_text"}

\* the index of the first occurrence of x in s
FirstIndex(s, x) ==
    CHOOSE i \in 1..Len(s) : s[i] = x /\ \A j \in 1..(i - 1) : s[j] # x

\* C19: list_union(a, b), for all lists a and b (None and lists with
\* repeated elements included), has no duplicates, holds exactly the
\* elements of a and of b, and orders them by first occurrence in a
\* followed by b.
C19_ListUnionIsOrderedUnion ==
    (result # <<>> /\ probe[1] = "list_union") =>
        LET a == OrList(probe[2])
            b == OrList(probe[3])
            r == result.val
        IN  /\ \A i, j \in 1..Len(r) : i # j => r[i] # r[j]
            /\ Range(r) = Range(a) \cup Range(b)
            /\ \A i, j \in 1..Len(r) :
                  i < j => FirstIndex(a \o b, r[i]) < FirstIndex(a \o b, r[j])

\* list_union has been given None and a list that repeats an element
C19_Witness ==
    /\ result # <<>>
    /\ probe[1] = "list_union"
    /\ probe[2] = None
    /\ probe[3] = Some(<<"cash_flows", "cash_flows">>)
    /\ result.val = <<"cash_flows">>

\* C20: section_merge(a, b) returns one of its two records as it is (None
\* counting as the empty record), the one of higher version whenever the
\* versions differ, and a record with a version rather than one without.
C20_SectionMergeKeepsOneRecord ==
    (result # <<>> /\ probe[1] = "section_merge") =>
        LET a == OrDict(probe[2])
            b == OrDict(probe[3])
            va == Get(a, "_v", -1)
            vb == Get(b, "_v", -1)
            r == result.val
        IN  /\ r = a \/ r = b
            /\ va > vb => r = a
            /\ vb > va => r = b
            /\ ("_v" \in DOMAIN a /\ "_v" \notin DOMAIN b) => r = a
            /\ ("_v" \in DOMAIN b /\ "_v" \notin DOMAIN a) => r = b

\* section_merge has been given a record of version 2 and then one of
\* version 1 that has other fields
C20_Witness ==
    /\ result # <<>>
    /\ probe[1] = "section_merge"
    /\ probe[2] # None
    /\ probe[3] # None
    /\ Get(OrDict(probe[2]), "_v", -1) = 2
    /\ Get(OrDict(probe[3]), "_v", -1) = 1
    /\ result.val = probe[2].val

\* section_merge has been given None and then a written record
NoneLosesToRecord ==
    /\ result # <<>>
    /\ probe[1] = "section_merge"
    /\ probe[2] = None
    /\ probe[3] # None
    /\ Get(OrDict(probe[3]), "_v", -1) = 2
    /\ result.val = probe[3].val

\* the service is unavailable: the SDK was not initialised at import, or
\* the request fails
Unavailable == ~probe.use_openai \/ probe.response.kind = "raises"

\* C21: call_llm never raises to its caller, and whenever the service is
\* unavailable it returns the stub string with estimated token counts.
C21_GatewayNeverRaises ==
    result # <<>> =>
        /\ ~result.raised
        /\ Unavailable =>
              /\ result.stub
              /\ result.len = StubLen
              /\ result.in_tok = count_tokens(probe.promptLen, probe.encoded)
              /\ result.out_tok = count_tokens(StubLen, probe.encoded)

RECURSIVE Total(_, _, _)
\* the sum of `field` over the first n entries of the ledger
Total(log, field, n) ==
    IF n = 0 THEN 0 ELSE Total(log, field, n - 1) + log[n][field]

\* the ledger of the example: calls of (in=100, out=50) and (in=200, out=100)
ExampleLedger ==
    /\ Len(probe.log) = 2
    /\ probe.log[1].input_tokens = 100 /\ probe.log[1].output_tokens = 50
    /\ probe.log[2].input_tokens = 200 /\ probe.log[2].output_tokens = 100

\* C22: the summary of any ledger has calls equal to the number of entries,
\* input_tokens and output_tokens equal to the sums over the entries, and
\* an estimated cost of (input_tokens/1000)*input_rate +
\* (output_tokens/1000)*output_rate, which is also the sum of the entries'
\* costs; for the example at the rates 0.05 and 0.15 it is 0.0375 (3750
\* in 1e-5 dollars).
C22_SummaryAddsUp ==
    result # <<>> =>
        LET n == Len(probe.log)
        IN  /\ result.calls = n
            /\ result.input_tokens = Total(probe.log, "input_tokens", n)
            /\ result.output_tokens = Total(probe.log, "output_tokens", n)
            /\ result.est_cost =
                  result.input_tokens * probe.pricing.input_per_1k
                  + result.output_tokens * probe.pricing.output_per_1k
            /\ result.est_cost = Total(probe.log, "total_cost", n)
            /\ (ExampleLedger /\ probe.pricing = DefaultPricing) =>
                  /\ result.input_tokens = 300
                  /\ result.output_tokens = 150
                  /\ result.est_cost = 3750

\* the example ledger has been summarised at the default rates
C22_Witness ==
    /\ result # <<>>
    /\ ExampleLedger
    /\ probe.pricing = DefaultPricing
    /\ result.calls = 2
    /\ result.est_cost = 3750

\* a Checker reply that parses to an object whose `passed` is false
FailVerdict(text) ==
    /\ text.ok
    /\ text.val.j = "dict"
    /\ "passed" \in DOMAIN text.val.d
    /\ ~Truthy(text.val.d["passed"])

\* C23: for a parsed verdict with passed = false and an input retry_count
\* r, Checker(T) sets retry_count to r + 1, feedback to the parsed
\* feedback, and passed to false if r + 1 < MAX_RETRIES and to true
\* otherwise; version increases by 1 and draft is unchanged.
C23_FailedCheckCountsAndForces ==
    [][\A T \in StatementTypes :
          (CheckerRan(T) /\ FailVerdict(LastReply(T)')) =>
              LET old == Section(T)
                  new == Section(T)'
                  r == retry_count(old)
              IN  /\ pc' # "aborted"
                  /\ new["retries"] = r + 1
                  /\ new["passed"] = (r + 1 >= MAX_RETRIES)
                  /\ new["feedback"] =
                        Get(LastReply(T)'.val.d, "feedback", JList(<<>>))
                  /\ version(new) = version(old) + 1
                  /\ ("draft" \in DOMAIN new) = ("draft" \in DOMAIN old)
                  /\ Get(new, "draft", 0) = Get(old, "draft", 0)]_vars

\* a failed check has used up the retries: passed is forced and the
\* feedback is recorded
C23_Witness ==
    \E T \in StatementTypes :
        /\ Len(replies[checker_log_name(T)]) = 1
        /\ FailVerdict(LastReply(T))
        /\ retry_count(Section(T)) = MAX_RETRIES
        /\ IsPassed(Section(T))
        /\ Section(T)["feedback"] = JList(<<1>>)
        /\ version(Section(T)) = 3

\* C24: Router(T) returns DONE if passed is true or retry_count >=
\* MAX_RETRIES and RETRY otherwise, no other label, and leaves the state
\* as it is.
C24_RouterIsPureAndTwoValued ==
    [][result' # <<>> =>
          LET rec == sub[result'.of][state_key(result'.of)]
          IN  /\ result'.label \in {"done", "retry"}
              /\ result'.label = "done" <=>
                    (IsPassed(rec) \/ retry_count(rec) >= MAX_RETRIES)
              /\ sub' = sub
              /\ state' = state
              /\ secState' = secState]_vars

\* Router(T) has answered DONE for a record that has not passed and has no
\* retry left
C24_Witness ==
    /\ result # <<>>
    /\ result.of = focus
    /\ result.label = "done"
    /\ ~IsPassed(sub[focus][state_key(focus)])
    /\ retry_count(sub[focus][state_key(focus)]) = MAX_RETRIES

\* the number of executions of Generator(T) and of Checker(T)
Generated(T) ==
    Get(COST_LOG, <<worker_log_name(T), "worker">>, 0)
    + Get(COST_LOG, <<worker_log_name(T), "citation_enhanced_worker">>, 0)
Checked(T) == Get(COST_LOG, <<checker_log_name(T), "local_checker">>, 0)

\* a step in which Generator(T) has run to its end
GeneratorRan(T) == subpc[T] = "Generator" /\ subpc'[T] = "Checker"

\* C25: each Generator(T) execution makes one LLM call, sets draft to a
\* text of the LLM, increases version by exactly 1 and sets feedback to
\* empty, and leaves retry_count, passed, the other two sections, ctx and
\* tasks unchanged.
C25_GeneratorFrame ==
    [][\A T \in StatementTypes :
          GeneratorRan(T) =>
              LET old == Section(T)
                  new == Section(T)'
              IN  /\ Generated(T)' = Generated(T) + 1
                  /\ new["draft"] \in Texts
                  /\ version(new) = version(old) + 1
                  /\ new["feedback"] = JList(<<>>)
                  /\ retry_count(new) = retry_count(old)
                  /\ ("passed" \in DOMAIN new) = ("passed" \in DOMAIN old)
                  /\ "passed" \in DOMAIN old => new["passed"] = old["passed"]
                  /\ \A k \in (DOMAIN sub[T]) \ {state_key(T)} :
                        sub'[T][k] = sub[T][k]
                  /\ DOMAIN sub'[T] = DOMAIN sub[T]
                  /\ \A U \in StatementTypes \ {T} : sub'[U] = sub[U]
                  /\ state' = state
                  /\ secState' = secState]_vars

\* Generator(T) has revised a draft after a failed check
C25_Witness ==
    \E T \in StatementTypes :
        /\ subpc[T] = "Checker"
        /\ version(Section(T)) = 3
        /\ retry_count(Section(T)) = 1
        /\ Section(T)["feedback"] = JList(<<>>)
        /\ "passed" \in DOMAIN Section(T)
        /\ Section(T)["passed"] = FALSE

\* C26: within each pipeline Generator(T) and Checker(T) alternate, starting
\* with Generator(T): every Checker(T) execution follows a Generator(T)
\* execution, Generator(T) runs first or after Router(T) returned RETRY,
\* and once Router(T) has returned DONE neither runs again.
C26_GeneratorCheckerAlternate ==
    [][\A T \in StatementTypes :
          /\ Generated(T)' # Generated(T) =>
                /\ Generated(T)' = Generated(T) + 1
                /\ Checked(T)' = Checked(T)
                /\ Generated(T) = Checked(T)
                /\ Generated(T) = Len(routes[T])
                /\ routes[T] # <<>> => Last(routes[T]) = "retry"
          /\ Checked(T)' # Checked(T) =>
                /\ Checked(T)' = Checked(T) + 1
                /\ Generated(T)' = Generated(T)
                /\ Generated(T) = Checked(T) + 1
          /\ (routes[T] # <<>> /\ Last(routes[T]) = "done") =>
                /\ Generated(T)' = Generated(T)
                /\ Checked(T)' = Checked(T)
                /\ routes'[T] = routes[T]]_vars

\* a pipeline has run Generator, Checker, Generator, Checker and ended
C26_Witness ==
    \E T \in StatementTypes :
        /\ routes[T] = <<"retry", "done">>
        /\ Generated(T) = 2
        /\ Checked(T) = 2
        /\ subpc[T] = "done"

\* a section record that has been written
Written(rec) == rec # EmptyDict

\* C27: section[T] changes only in steps of Generator(T) or Checker(T); the
\* copies of it in the Sections subgraph and the parent graph change only
\* by taking the record of the pipeline of T when the pipelines have ended;
\* ReadPDF, Planner, Join, Global Checker, Aggregator and the nodes of the
\* other pipelines leave it unchanged, and no record once written is
\* deleted or reset.
C27_OnlyOwnNodesWriteSection ==
    [][\A T \in StatementTypes :
          LET key == state_key(T)
          IN  /\ Section(T)' # Section(T) => Wrote(T)
              /\ \A U \in StatementTypes \ {T} : sub'[U][key] = sub[U][key]
              /\ secState'[key] # secState[key] =>
                    /\ subpc[T] = "done"
                    /\ secState'[key] = Section(T)
              /\ state'[key] # state[key] =>
                    /\ subpc[T] = "done"
                    /\ state'[key] = Section(T)
              /\ pc \in {"ReadPDF", "Planner", "TotalChecker", "Aggregator"} =>
                    /\ state'[key] = state[key]
                    /\ secState'[key] = secState[key]
                    /\ sub'[T][key] = sub[T][key]
              /\ pc = "Join" =>
                    /\ secState'[key] = secState[key]
                    /\ sub'[T][key] = sub[T][key]
              /\ \A old \in {<<Section(T), Section(T)'>>,
                             <<secState[key], secState'[key]>>,
                             <<state[key], state'[key]>>} :
                    Written(old[1]) =>
                        /\ Written(old[2])
                        /\ version(old[2]) >= version(old[1])
                        /\ DOMAIN old[1] \subseteq DOMAIN old[2]]_vars

\* a run has ended with a section that was written four times
C27_Witness ==
    /\ pc = "END"
    /\ \E T \in StatementTypes :
          /\ version(state[state_key(T)]) = 4
          /\ state[state_key(T)] = Section(T)

\* C28: executing the Join Barrier leaves every field of the state it runs
\* on unchanged, also after each field's merge rule is applied to the state
\* it returns, and leaves ctx and tasks of the parent unchanged.
C28_JoinChangesNothing ==
    [][pc = "Join" =>
          /\ join_barrier(secState) = secState
          /\ \A f \in DOMAIN secState :
                Reduce(f, secState[f], join_barrier(secState)[f]) = secState[f]
          /\ secState' = secState
          /\ state'["ctx"] = state["ctx"]
          /\ state'["tasks"] = state["tasks"]
          /\ sub' = sub]_vars

\* the Join has run on a state with three tasks and three written sections
C28_Witness ==
    /\ joinRoute = "go"
    /\ pc = "TotalChecker"
    /\ Len(secState["tasks"]) = 3
    /\ \A k \in SectionKeys : Written(secState[k])
    /\ "pdf_text" \in DOMAIN secState["ctx"]

\* global findings and final_report have one writer each, which runs at
\* most once, and are unset from the start of the run through the section
\* phase and the Join
SingleWriters ==
    /\ "global_suggestions" \in DOMAIN state <=> Calls(COST_LOG, "TotalChecker") = 1
    /\ "final_report" \in DOMAIN state <=> Calls(COST_LOG, "Aggregator") = 1
    /\ Calls(COST_LOG, "TotalChecker") <= 1
    /\ Calls(COST_LOG, "Aggregator") <= 1
    /\ pc \in {"ReadPDF", "Planner", "FanOut", "Sections", "Join"} =>
          DOMAIN state \cap {"global_suggestions", "final_report"} = {}
    /\ DOMAIN secState \cap {"global_suggestions", "final_report"} = {}
    /\ \A T \in StatementTypes :
          DOMAIN sub[T] \cap {"global_suggestions", "final_report"} = {}

\* C29: global findings is written only by the Global Checker and
\* final_report only by the Aggregator, each exactly once per run, and both
\* are unset through the section phase and the Join.
C29_SingleWritersOncePerRun ==
    /\ SingleWriters
    /\ RunOver =>
          /\ "global_suggestions" \in DOMAIN state
          /\ "final_report" \in DOMAIN state

\* a Global Checker reply that is not of the structure {suggestions: [...]}
MalformedFindings(text) ==
    \/ ~text.ok
    \/ text.val.j # "dict"
    \/ "suggestions" \notin DOMAIN text.val.d

\* C30: for every Global Checker LLM output that is not of the structure
\* {suggestions: [...]}, global findings holds exactly the one default
\* suggestion together with the raw text.
C30_MalformedFindingsDefault ==
    ("global_suggestions" \in DOMAIN state
     /\ MalformedFindings(state["global_suggestions"].raw)) =>
        state["global_suggestions"].items = DefaultSuggestions

\* the step appends one entry under `node` and leaves every other entry
AppendsOne(node) ==
    \E e \in DOMAIN COST_LOG' :
        /\ e[1] = node
        /\ COST_LOG'[e] = Get(COST_LOG, e, 0) + 1
        /\ DOMAIN COST_LOG' = (DOMAIN COST_LOG) \cup {e}
        /\ \A f \in (DOMAIN COST_LOG) \ {e} : COST_LOG'[f] = COST_LOG[f]

\* no entry of the ledger is removed, and a step adds at most one
LedgerGrows ==
    /\ \A e \in DOMAIN COST_LOG :
          e \in DOMAIN COST_LOG' /\ COST_LOG'[e] >= COST_LOG[e]
    /\ COST_LOG' = COST_LOG \/ \E n \in {e[1] : e \in DOMAIN COST_LOG'} : AppendsOne(n)

\* the labels the routing functions return are those of the state alone
RoutesReadStateOnly ==
    /\ \A T \in StatementTypes :
          routes'[T] # routes[T] => Last(routes'[T]) = router(T, sub'[T])
    /\ joinRoute' # joinRoute => joinRoute' = join_route(secState')

\* the steps of the nodes that call no LLM
NoLLMStep ==
    \/ ReadPDF
    \/ FanOut
    \/ \E T \in StatementTypes : FanIn(T)
    \/ Join

\* the ledger is append-only in steps that run a node to its end or to its
\* LLM call
AppendOnlyWhereCalled ==
    [][/\ LedgerGrows
       /\ RoutesReadStateOnly
       /\ NoLLMStep => COST_LOG' = COST_LOG
       /\ Planner => AppendsOne("Planner")
       /\ TotalChecker => AppendsOne("TotalChecker")
       /\ Aggregator => AppendsOne("Aggregator")
       /\ \A T \in StatementTypes :
             /\ Checker(T) => AppendsOne(checker_log_name(T))
             /\ GeneratorRan(T) => AppendsOne(worker_log_name(T))]_vars

\* C31: the Cost Ledger is append-only under every interleaving: each
\* execution of Planner, Generator(T), Checker(T), Global Checker and
\* Aggregator appends exactly one entry, no step removes an entry or adds
\* more than one, and the routing functions return what the state alone
\* determines.
C31_LedgerAppendOnly ==
    [][/\ LedgerGrows
       /\ RoutesReadStateOnly
       /\ Planner => AppendsOne("Planner")
       /\ TotalChecker => AppendsOne("TotalChecker")
       /\ Aggregator => AppendsOne("Aggregator")
       /\ \A T \in StatementTypes :
             /\ Checker(T) => AppendsOne(checker_log_name(T))
             /\ Generator(T) => AppendsOne(worker_log_name(T))]_vars

\* C32: after the ReadPDF node ctx.pdf_text is a non-empty string in every
\* run: a non-blank text supplied upstream is kept unchanged, when no
\* document can be found or read the placeholder text is used, and the run
\* goes on to the Planner.
C32_PdfTextNeverEmpty ==
    [][\A found \in BOOLEAN, ragOk \in BOOLEAN :
          ReadPDFOn(found, ragOk) =>
              LET supplied == Get(state["ctx"], "pdf_text", NotAString)
                  new == state'["ctx"]
              IN  /\ "pdf_text" \in DOMAIN new
                  /\ new["pdf_text"] \notin {NotAString, BlankText, NoText}
                  /\ supplied \notin {NotAString, BlankText, NoText} =>
                        new["pdf_text"] = supplied
                  /\ (supplied \in {NotAString, BlankText, NoText} /\ ~found) =>
                        new["pdf_text"] = DummyText
                  /\ pc' = "Planner"]_vars

\* ReadPDF could read no document at the path it was given and used the
\* placeholder text, and the Planner has run after it
C32_Witness ==
    /\ pc = "FanOut"
    /\ state["ctx"]["pdf_text"] = DummyText
    /\ "pdf_path" \in DOMAIN state["ctx"]
    /\ state["ctx"]["pdf_path"] = PathGiven
    /\ "pdf_rag_enabled" \notin DOMAIN state["ctx"]

\* ReadPDF has kept a text supplied upstream that no document yields
UpstreamTextKept ==
    /\ pc = "Planner"
    /\ state["ctx"]["pdf_text"] = MaxText + 1
    /\ "pdf_path" \notin DOMAIN state["ctx"]

\* the two invariants of a section record under the configured limit
WithinLimit(rec) ==
    /\ retry_count(rec) <= maxRetries
    /\ retry_count(rec) = maxRetries => IsPassed(rec)

\* C33 as claimed: for every configured MAX_RETRIES >= 0, in every state of
\* a Section Pipeline retry_count <= MAX_RETRIES, and retry_count =
\* MAX_RETRIES implies passed.
C33_InvariantsForAnyLimit ==
    \A T \in StatementTypes : WithinLimit(Section(T))

\* C33 as amended: for every configured MAX_RETRIES >= 1, in every state of
\* a Section Pipeline retry_count <= MAX_RETRIES, and retry_count =
\* MAX_RETRIES implies passed.
C33_InvariantsForPositiveLimit ==
    maxRetries >= 1 => \A T \in StatementTypes : WithinLimit(Section(T))

\* with MAX_RETRIES = 3 a pipeline has ended after three failed checks
C33_Witness ==
    /\ maxRetries = 3
    /\ verdicts[focus] = <<FALSE, FALSE, FALSE>>
    /\ retry_count(Section(focus)) = 3
    /\ IsPassed(Section(focus))
    /\ subpc[focus] = "done"

\* with MAX_RETRIES = 1 the first failed check ends the pipeline
OneRetryForcesAtOnce ==
    /\ maxRetries = 1
    /\ verdicts[focus] = <<FALSE>>
    /\ retry_count(Section(focus)) = 1
    /\ IsPassed(Section(focus))
    /\ subpc[focus] = "done"

\* C34: join_route never returns WAIT in any run, whatever the Checkers'
\* verdicts: the Join runs only after all three pipelines have ended, each
\* with passed = true in the record the Join sees, so its self-loop is
\* never entered.
C34_JoinNeverWaits ==
    /\ joinRoute # "wait"
    /\ ~joinWaited
    /\ (pc = "Join" \/ joinRoute # "none") =>
          \A T \in StatementTypes :
              /\ subpc[T] = "done"
              /\ secState[state_key(T)] = Section(T)
              /\ IsPassed(secState[state_key(T)])

\* join_route has answered GO for one section that used up its retries, one
\* that failed once and one that passed at once
C34_Witness ==
    /\ joinRoute = "go"
    /\ verdicts["balance_sheet"] = <<FALSE, FALSE>>
    /\ retry_count(secState["bs"]) = MAX_RETRIES
    /\ verdicts["income_statement"] = <<FALSE, TRUE>>
    /\ verdicts["cash_flows"] = <<TRUE>>

\* C35: with MAX_RETRIES = 2 each pipeline executes Generator(T) at most
\* MAX_RETRIES times and Checker(T) at most MAX_RETRIES times, and a
\* completed run has made between 9 and 15 LLM calls, each with one entry
\* in the Cost Ledger.
C35_CallsBounded ==
    /\ \A T \in StatementTypes :
          /\ Generated(T) <= MAX_RETRIES
          /\ Checked(T) <= MAX_RETRIES
          /\ Len(routes[T]) <= MAX_RETRIES
    /\ pc = "END" =>
          /\ LogLen(COST_LOG) \in 9..15
          /\ LogLen(COST_LOG) =
                3 + Generated("balance_sheet") + Checked("balance_sheet")
                  + Generated("income_statement") + Checked("income_statement")
                  + Generated("cash_flows") + Checked("cash_flows")

\* a completed run in which every pipeline ran twice: 15 LLM calls
C35_Witness ==
    /\ pc = "END"
    /\ LogLen(COST_LOG) = 15
    /\ \A T \in StatementTypes : Generated(T) = 2 /\ Checked(T) = 2

\* a completed run in which every section passed at once: 9 LLM calls
NineCalls ==
    /\ pc = "END"
    /\ LogLen(COST_LOG) = 9

\* re-applying the merge rules of ctx and the section fields to the state
\* `cur` a node was given and the state `out` it returned yields `out`
Remerged(cur, out) ==
    \A k \in SectionKeys \cup {"ctx"} :
        k \in DOMAIN out => Reduce(k, cur[k], out[k]) = out[k]

\* the output of Generator(T) or Checker(T) has a newer section[T] and the
\* other fields as they were
NewerSection(T, cur, out) ==
    /\ version(out[state_key(T)]) > version(cur[state_key(T)])
    /\ \A k \in (DOMAIN cur) \ {state_key(T)} : out[k] = cur[k]

\* C36: for every node about to run and everything it can return, applying
\* the merge rules of ctx and the section fields to (the value before the
\* step, the value returned) yields the value returned: an output of
\* Generator(T) or Checker(T) has a version above that of the section[T] it
\* replaces, and a field the node did not change stays as it was; the
\* result of a pipeline written at the fan-in replaces section[T] and
\* leaves the sections the other pipelines have written.
C36_RemergeKeepsOutput ==
    /\ pc = "ReadPDF" =>
          \A found \in BOOLEAN, ragOk \in BOOLEAN :
              Remerged(state, readpdf_agent(state, found, ragOk))
    /\ pc = "Planner" =>
          \A text \in PlannerTextsFor : Remerged(state, planner_agent(state, text))
    /\ pc = "Sections" =>
          \A T \in StatementTypes :
              /\ subpc[T] = "Generator" =>
                    \A text \in GeneratorTextsFor(T) :
                        LET g == generator(T, sub[T], text)
                        IN  ~g.raised =>
                                /\ Remerged(sub[T], g.out)
                                /\ NewerSection(T, sub[T], g.out)
              /\ subpc[T] = "Checker" =>
                    \A text \in CheckerTextsFor(T) :
                        LET c == checker(T, sub[T], text)
                        IN  ~c.raised =>
                                /\ Remerged(sub[T], c.out)
                                /\ NewerSection(T, sub[T], c.out)
              /\ (T \notin merged /\ \A U \in StatementTypes : subpc[U] = "done") =>
                    LET new == ApplyWrites(secState, sub[T])
                    IN  /\ new[state_key(T)] = sub[T][state_key(T)]
                        /\ new["ctx"] = sub[T]["ctx"]
                        /\ \A U \in StatementTypes \ {T} :
                              new[state_key(U)] = secState[state_key(U)]
    /\ pc = "Join" =>
          /\ Remerged(secState, join_barrier(secState))
          /\ Remerged(state, secState)
    /\ pc = "TotalChecker" =>
          \A text \in TotalCheckerTextsFor : Remerged(state, total_checker(state, text))
    /\ pc = "Aggregator" =>
          \A text \in AggregatorTextsFor : Remerged(state, aggregator(state, text))

\* the sections of a run, one written four times and one twice, have been
\* merged into the parent's state, whose ctx ReadPDF had extended
C36_Witness ==
    /\ pc = "TotalChecker"
    /\ version(state["bs"]) = 4
    /\ version(state["inc"]) = 2
    /\ "pdf_rag_enabled" \in DOMAIN state["ctx"]
    /\ state["ctx"]["pdf_path"] = PathResolved

\* Router(T) has returned DONE: the pipeline of T has finished
Finished(T) == routes[T] # <<>> /\ Last(routes[T]) = "done"

\* C37: when a pipeline has finished with MAX_RETRIES = 2, passed is true
\* in its section, and its last Checker verdict was a failure exactly when
\* retry_count = MAX_RETRIES.
C37_ForcedPassShowsInRetries ==
    \A T \in StatementTypes :
        Finished(T) =>
            /\ IsPassed(Section(T))
            /\ Last(verdicts[T]) = FALSE <=> retry_count(Section(T)) = MAX_RETRIES

\* two finished pipelines, one passed by its second check and one forced
\* after two failures, whose records differ in retry_count alone
C37_Witness ==
    \E T, U \in StatementTypes :
        /\ Finished(T) /\ verdicts[T] = <<FALSE, TRUE>>
        /\ Finished(U) /\ verdicts[U] = <<FALSE, FALSE>>
        /\ retry_count(Section(U)) = MAX_RETRIES
        /\ [Section(T) EXCEPT !["retries"] = MAX_RETRIES] = Section(U)

\* the record without its field k
Without(rec, k) == [x \in (DOMAIN rec) \ {k} |-> rec[x]]

\* what the two generators return for the same state and LLM text is the
\* same but for retrieved_chunks: the draft set, the version one higher,
\* the feedback cleared, retry_count and passed as they were
SameChanges(T, s, text) ==
    LET key == state_key(T)
        old == s[key]
        f == fallback_generator(T, s, text).out
        c == citation_enhanced_generator(T, s, text).out
    IN  /\ Without(c[key], "retrieved_chunks") = Without(f[key], "retrieved_chunks")
        /\ "retrieved_chunks" \in DOMAIN c[key]
        /\ \A k \in (DOMAIN s) \ {key} : c[k] = f[k] /\ f[k] = s[k]
        /\ f[key]["draft"] = text
        /\ version(f[key]) = version(old) + 1
        /\ f[key]["feedback"] = JList(<<>>)
        /\ retry_count(f[key]) = retry_count(old)
        /\ ("passed" \in DOMAIN f[key]) = ("passed" \in DOMAIN old)
        /\ "passed" \in DOMAIN old => f[key]["passed"] = old["passed"]

\* the two generators write the same whenever both return
GeneratorsAgreeWhenBothReturn ==
    \A T \in StatementTypes :
        (pc = "Sections" /\ subpc[T] = "Generator") =>
            \A text \in GeneratorTextsFor(T) : SameChanges(T, sub[T], text)

\* C38: on every state a Generator(T) runs on and for every LLM text, the
\* citation-enhanced generator and the fallback generator both return, with
\* the same changes to section[T] but for retrieved_chunks, or both raise:
\* a step of a pipeline with retrieval enabled is a step of one with
\* retrieval disabled.
C38_GeneratorsCorrespond ==
    \A T \in StatementTypes :
        (pc = "Sections" /\ subpc[T] = "Generator") =>
            \A text \in GeneratorTextsFor(T) :
                /\ citation_enhanced_generator(T, sub[T], text).raised
                      = fallback_generator(T, sub[T], text).raised
                /\ SameChanges(T, sub[T], text)

\* the run is over or can take a step, which is never the Join waiting
Proceeds ==
    /\ pc # "aborted"
    /\ ~joinWaited
    /\ pc # "END" => ENABLED Next

\* C39: in stub mode a run completes and ends with tasks equal to the three
\* section identifiers, every section at passed = true, retry_count 0 and
\* version 2 after one Generator and one Checker execution, the global
\* findings holding the one default suggestion, final_report equal to the
\* stub text, and 9 entries in the Cost Ledger.
C39_StubRun ==
    /\ Proceeds
    /\ \A T \in StatementTypes : Generated(T) <= 1 /\ Checked(T) <= 1
    /\ pc = "END" =>
          /\ state["tasks"] = <<"balance_sheet", "income_statement", "cash_flows">>
          /\ \A T \in StatementTypes :
                LET rec == state[state_key(T)]
                IN  /\ IsPassed(rec)
                    /\ "retries" \in DOMAIN rec /\ rec["retries"] = 0
                    /\ "_v" \in DOMAIN rec /\ rec["_v"] = 2
                    /\ rec["draft"] = StubText
                    /\ Generated(T) = 1
                    /\ Checked(T) = 1
          /\ state["global_suggestions"].items = DefaultSuggestions
          /\ state["final_report"] = StubText
          /\ LogLen(COST_LOG) = 9

\* a run in stub mode has ended, with the placeholder document text
C39_Witness ==
    /\ ~USE_OPENAI
    /\ pc = "END"
    /\ state["final_report"] = StubText
    /\ state["ctx"]["pdf_text"] = DummyText
    /\ LogLen(COST_LOG) = 9

====
